---- MODULE Spec2Model ----
(***************************************************************************)
(* Gmail-Automation: one pass of run_email_automation (email_agents.py)    *)
(* over the newest message of the mailbox, through GmailClient             *)
(* (gmail_client.py).                                                      *)
(*                                                                         *)
(* Text is a sequence of character codes, so that lower(), strip(),        *)
(* split(), "in", base64 and tag stripping are computed character by       *)
(* character.  A Python value that may be None is a sequence of length 0   *)
(* (None) or 1 (the value).                                                *)
(***************************************************************************)
EXTENDS Integers, Sequences, FiniteSets

\* ------------------------------------------------------------------ bounds

\* The largest number of parts directly under a multipart payload.
MaxParts == 2

\* ------------------------------------------------------------- Python values

None == <<>>
Some(x) == <<x>>

\* Truth value of an optional string: None and "" are falsy.
Truthy(o) == o # None /\ o[1] # <<>>

\* a or b or c
Or3(a, b, c) == IF Truthy(a) THEN a ELSE IF Truthy(b) THEN b ELSE c

\* ------------------------------------------------------------- str methods

\* str.isspace() of one character (ASCII).
Whitespace == {9, 10, 11, 12, 13, 28, 29, 30, 31, 32}

RECURSIVE LStrip(_)
LStrip(s) ==
    IF s # <<>> /\ Head(s) \in Whitespace THEN LStrip(Tail(s)) ELSE s

RECURSIVE RStrip(_)
RStrip(s) ==
    IF s # <<>> /\ s[Len(s)] \in Whitespace
    THEN RStrip(SubSeq(s, 1, Len(s) - 1))
    ELSE s

\* str.strip()
Strip(s) == RStrip(LStrip(s))

\* str.lower() (ASCII)
LowerChar(c) == IF c \in 65..90 THEN c + 32 ELSE c
Lower(s) == [i \in 1..Len(s) |-> LowerChar(s[i])]

\* s[i:i+len(t)] == t
MatchAt(s, t, i) ==
    /\ i + Len(t) - 1 <= Len(s)
    /\ \A j \in 1..Len(t) : s[i + j - 1] = t[j]

\* t in s
Contains(s, t) == \E i \in 1..(Len(s) + 1) : MatchAt(s, t, i)

\* s.find(t) + 1, for t in s
FirstIndex(s, t) ==
    CHOOSE i \in 1..(Len(s) + 1) :
        /\ MatchAt(s, t, i)
        /\ \A k \in 1..(i - 1) : ~MatchAt(s, t, k)

\* s.split(t)[0]
SplitHead(s, t) ==
    IF Contains(s, t) THEN SubSeq(s, 1, FirstIndex(s, t) - 1) ELSE s

\* ------------------------------------------------------------------ base64

\* The character of the URL-safe alphabet for a 6-bit value.
B64Char(v) ==
    IF v < 26 THEN 65 + v
    ELSE IF v < 52 THEN 97 + (v - 26)
    ELSE IF v < 62 THEN 48 + (v - 52)
    ELSE IF v = 62 THEN 45
    ELSE 95

\* The 6-bit value of a character of the URL-safe alphabet.
B64Val(c) ==
    IF c \in 65..90 THEN c - 65
    ELSE IF c \in 97..122 THEN c - 97 + 26
    ELSE IF c \in 48..57 THEN c - 48 + 52
    ELSE IF c = 45 THEN 62
    ELSE 63

B64Pad == 61

\* base64.urlsafe_b64encode
RECURSIVE urlsafe_b64encode(_)
urlsafe_b64encode(b) ==
    IF Len(b) = 0 THEN <<>>
    ELSE IF Len(b) = 1 THEN
        <<B64Char(b[1] \div 4), B64Char((b[1] % 4) * 16), B64Pad, B64Pad>>
    ELSE IF Len(b) = 2 THEN
        <<B64Char(b[1] \div 4),
          B64Char((b[1] % 4) * 16 + b[2] \div 16),
          B64Char((b[2] % 16) * 4),
          B64Pad>>
    ELSE
        <<B64Char(b[1] \div 4),
          B64Char((b[1] % 4) * 16 + b[2] \div 16),
          B64Char((b[2] % 16) * 4 + b[3] \div 64),
          B64Char(b[3] % 64)>>
        \o urlsafe_b64encode(SubSeq(b, 4, Len(b)))

\* base64.urlsafe_b64decode, on correctly padded data
RECURSIVE urlsafe_b64decode(_)
urlsafe_b64decode(d) ==
    IF Len(d) < 4 THEN <<>>
    ELSE
        LET v1 == B64Val(d[1])
            v2 == B64Val(d[2])
            v3 == B64Val(d[3])
            v4 == B64Val(d[4])
            b1 == v1 * 4 + v2 \div 16
            b2 == (v2 % 16) * 16 + v3 \div 4
            b3 == (v3 % 4) * 64 + v4
        IN  IF d[3] = B64Pad THEN <<b1>>
            ELSE IF d[4] = B64Pad THEN <<b1, b2>>
            ELSE <<b1, b2, b3>> \o urlsafe_b64decode(SubSeq(d, 5, Len(d)))

\* bytes.decode("utf-8", errors="ignore"); the messages of the model are ASCII,
\* where the only bytes ignored are those above 127.
Utf8DecodeIgnore(b) == SelectSeq(b, LAMBDA x : x < 128)

\* ------------------------------------------------------------ BeautifulSoup

LT == 60
GT == 62
NewLine == 10

\* The text nodes of well-formed markup, in document order: the maximal
\* non-empty runs of characters outside tags.
RECURSIVE TextNodes(_, _, _, _)
TextNodes(h, i, inTag, cur) ==
    IF i > Len(h) THEN (IF cur = <<>> THEN <<>> ELSE <<cur>>)
    ELSE IF inTag THEN TextNodes(h, i + 1, h[i] # GT, <<>>)
    ELSE IF h[i] = LT THEN
        (IF cur = <<>> THEN <<>> ELSE <<cur>>) \o TextNodes(h, i + 1, TRUE, <<>>)
    ELSE TextNodes(h, i + 1, FALSE, Append(cur, h[i]))

RECURSIVE Join(_, _)
Join(nodes, sep) ==
    IF nodes = <<>> THEN <<>>
    ELSE IF Len(nodes) = 1 THEN nodes[1]
    ELSE nodes[1] \o sep \o Join(Tail(nodes), sep)

\* BeautifulSoup(html, "html.parser").get_text(separator="\n")
get_text(h) == Join(TextNodes(h, 1, FALSE, <<>>), <<NewLine>>)

\* -------------------------------------------------------------- string data

\* 'Type of draft_result:'
MarkerText ==
    <<84, 121, 112, 101, 32, 111, 102, 32, 100, 114, 97, 102, 116, 95, 114,
      101, 115, 117, 108, 116, 58>>
\* 'no reply'
NoReplyText == <<110, 111, 32, 114, 101, 112, 108, 121>>
\* 'Re: '
RePrefix == <<82, 101, 58, 32>>
\* 'Unknown'
UnknownSender == <<85, 110, 107, 110, 111, 119, 110>>
\* 'No Subject'
NoSubject == <<78, 111, 32, 83, 117, 98, 106, 101, 99, 116>>
\* 'Content-Type: text/plain; charset="us-ascii"\nMIME-Version: 1.0\n
\*  Content-Transfer-Encoding: 7bit\n'
MimeHeaders ==
    <<67, 111, 110, 116, 101, 110, 116, 45, 84, 121, 112, 101, 58, 32, 116,
      101, 120, 116, 47, 112, 108, 97, 105, 110, 59, 32, 99, 104, 97, 114,
      115, 101, 116, 61, 34, 117, 115, 45, 97, 115, 99, 105, 105, 34, 10,
      77, 73, 77, 69, 45, 86, 101, 114, 115, 105, 111, 110, 58, 32, 49, 46,
      48, 10, 67, 111, 110, 116, 101, 110, 116, 45, 84, 114, 97, 110, 115,
      102, 101, 114, 45, 69, 110, 99, 111, 100, 105, 110, 103, 58, 32, 55,
      98, 105, 116, 10>>
\* 'to: '
ToHeader == <<116, 111, 58, 32>>
\* 'subject: '
SubjectHeader == <<115, 117, 98, 106, 101, 99, 116, 58, 32>>

\* ------------------------------------------------------------- GmailClient

\* The message a read returns: gmail_client.py, the dict of read_message.
Message(sender, subject, body, body_html) ==
    [sender |-> sender, subject |-> subject, body |-> body,
     body_html |-> body_html]

\* next((h["value"] for h in headers if h["name"] == name), default)
RECURSIVE HeaderValue(_, _, _)
HeaderValue(headers, name, default) ==
    IF headers = <<>> THEN default
    ELSE IF Head(headers).name = name THEN Head(headers).value
    ELSE HeaderValue(Tail(headers), name, default)

\* base64.urlsafe_b64decode(data).decode("utf-8", errors="ignore")
Decoded(data) == Utf8DecodeIgnore(urlsafe_b64decode(data))

\* The accumulators body, body_html after one part's own data is handled.
PartData(part, acc) ==
    IF Truthy(part.data) THEN
        IF part.mimeType = "text/plain" THEN
            [acc EXCEPT !.body = @ \o Decoded(part.data[1])]
        ELSE IF part.mimeType = "text/html" THEN
            [acc EXCEPT !.body_html = @ \o Decoded(part.data[1])]
        ELSE acc
    ELSE acc

\* extract_parts(parts): depth first, a part's own data before its sub-parts.
RECURSIVE extract_parts(_, _)
extract_parts(parts, acc) ==
    IF parts = <<>> THEN acc
    ELSE
        LET part == Head(parts)
            own  == PartData(part, acc)
            sub  == IF part.parts # None
                    THEN extract_parts(part.parts[1], own)
                    ELSE own
        IN  extract_parts(Tail(parts), sub)

\* body, body_html before the HTML fallback.
DecodeBody(payload) ==
    IF payload.parts # None
    THEN extract_parts(payload.parts[1], [body |-> <<>>, body_html |-> <<>>])
    ELSE [body |-> IF Truthy(payload.data) THEN Decoded(payload.data[1])
                   ELSE <<>>,
          body_html |-> <<>>]

\* If plain text is empty, extract text from HTML.
HtmlFallback(acc) ==
    IF acc.body = <<>> /\ acc.body_html # <<>>
    THEN [acc EXCEPT !.body = get_text(acc.body_html)]
    ELSE acc

\* read_message, on a fetched payload.
read_message(payload) ==
    LET acc == HtmlFallback(DecodeBody(payload))
    IN  Message(HeaderValue(payload.headers, "From", UnknownSender),
                HeaderValue(payload.headers, "Subject", NoSubject),
                Strip(acc.body),
                Strip(acc.body_html))

\* MIMEText(body) with its to and subject headers, as_bytes().
MimeBytes(to, subject, body) ==
    MimeHeaders \o ToHeader \o to \o <<NewLine>>
        \o SubjectHeader \o subject \o <<NewLine>>
        \o <<NewLine>> \o body

\* The draft resource create_draft submits.
DraftResource(to, subject, body) ==
    [raw |-> urlsafe_b64encode(MimeBytes(to, subject, body))]

\* ------------------------------------------------------ messages of the model

\* 'a@x.io'
SenderA == <<97, 64, 120, 46, 105, 111>>
\* 'b@y.io'
SenderB == <<98, 64, 121, 46, 105, 111>>
\* 'Hi'
SubjectS == <<72, 105>>
\* 'Hello'
PlainHello == <<72, 101, 108, 108, 111>>
\* '<p>Hi</p>'
HtmlOne == <<60, 112, 62, 72, 105, 60, 47, 112, 62>>
\* '<div>Yo <b>all</b></div>\n'
HtmlTwo ==
    <<60, 100, 105, 118, 62, 89, 111, 32, 60, 98, 62, 97, 108, 108, 60, 47,
      98, 62, 60, 47, 100, 105, 118, 62, 10>>
\* '%PDF'
PdfBytes == <<37, 80, 68, 70>>

Header(name, value) == [name |-> name, value |-> value]

\* The header lists of the model: none, both (Subject first), a second From.
HeaderLists ==
    { <<>>,
      <<Header("Subject", SubjectS), Header("From", SenderA),
        Header("From", SenderB)>> }

\* A part that carries data and no sub-parts.
Leaf(mime, text) ==
    [mimeType |-> mime, data |-> Some(urlsafe_b64encode(text)), parts |-> None]

\* A part that carries sub-parts and no data of its own.
Multipart(mime, parts) ==
    [mimeType |-> mime, data |-> None, parts |-> Some(parts)]

LeafParts ==
    { Leaf("text/plain", PlainHello),
      Leaf("text/html", HtmlOne) }

NestedParts ==
    { Multipart("multipart/alternative",
                <<Leaf("text/plain", PlainHello), Leaf("text/html", HtmlOne)>>),
      Multipart("multipart/related",
                <<Leaf("text/html", HtmlTwo), Leaf("application/pdf", PdfBytes)>>) }

PartLists ==
    UNION { [1..n -> LeafParts \cup NestedParts] : n \in 1..MaxParts }

\* Payloads without headers: single-part ones (one of them without data) and
\* multipart ones.
Bodies ==
    { Leaf("text/plain", PlainHello),
      Leaf("text/html", HtmlOne),
      Leaf("text/html", HtmlTwo),
      [mimeType |-> "text/plain", data |-> None, parts |-> None] }
    \cup { Multipart("multipart/mixed", ps) : ps \in PartLists }

Payloads ==
    { [headers |-> h, mimeType |-> b.mimeType, data |-> b.data,
       parts |-> b.parts] : h \in HeaderLists, b \in Bodies }

\* The mailbox holds no message or one, the newest.
Mailboxes == { <<>> } \cup { <<p>> : p \in Payloads }

\* --------------------------------------------------- results of the crews

\* 'No Reply Needed'
ClsNoReplyNeeded ==
    <<78, 111, 32, 82, 101, 112, 108, 121, 32, 78, 101, 101, 100, 101, 100>>
\* 'NO REPLY NEEDED.'
ClsUpper ==
    <<78, 79, 32, 82, 69, 80, 76, 89, 32, 78, 69, 69, 68, 69, 68, 46>>
\* 'Label: nO rEPLY nEEDED'
ClsSentence ==
    <<76, 97, 98, 101, 108, 58, 32, 110, 79, 32, 114, 69, 80, 76, 89, 32,
      110, 69, 69, 68, 69, 68>>
\* 'Follow-up'
ClsFollowUp == <<70, 111, 108, 108, 111, 119, 45, 117, 112>>
\* 'No reply'
ClsNoReplyShort == <<78, 111, 32, 114, 101, 112, 108, 121>>
\* 'no-reply needed'
ClsHyphen ==
    <<110, 111, 45, 114, 101, 112, 108, 121, 32, 110, 101, 101, 100, 101, 100>>
\* '<TaskOutput>'
ReprText == <<60, 84, 97, 115, 107, 79, 117, 116, 112, 117, 116, 62>>
\* 'Sum'
SummaryText == <<83, 117, 109>>
\* 'Dear A,\nOk.'
DraftPlain == <<68, 101, 97, 114, 32, 65, 44, 10, 79, 107, 46>>
\* ' Ok \n'
DraftPadded == <<32, 79, 107, 32, 10>>
\* ' \n'
DraftBlank == <<32, 10>>
\* 'Ok.\nType of draft_result: X'
DraftMarked == <<79, 107, 46, 10>> \o MarkerText \o <<32, 88>>
\* 'Ok Type of draft_result: A Type of draft_result:'
DraftMarkedTwice ==
    <<79, 107, 32>> \o MarkerText \o <<32, 65, 32>> \o MarkerText
\* '\nType of draft_result: X'
DraftOnlyMarker == <<10>> \o MarkerText \o <<32, 88>>
\* ' Streamed ok\n'
StreamText == <<32, 83, 116, 114, 101, 97, 109, 101, 100, 32, 111, 107, 10>>

\* What the code can observe of a task output: the three attributes it
\* probes (None when absent) and str(task_output).
TaskOutput(output_text, raw_output, final_output, str) ==
    [output_text |-> output_text, raw_output |-> raw_output,
     final_output |-> final_output, str |-> str]

\* A task output that has none of the probed attributes.
Plain(text) == TaskOutput(None, None, None, text)

ClassificationTexts ==
    { ClsNoReplyNeeded, ClsUpper, ClsSentence, ClsFollowUp, ClsNoReplyShort,
      ClsHyphen }

ClassificationOutputs ==
    { Plain(t) : t \in ClassificationTexts }
    \cup UNION { { TaskOutput(Some(t), None, None, ReprText),
                   TaskOutput(Some(<<>>), Some(t), None, ReprText),
                   TaskOutput(None, None, Some(t), ReprText) }
                 : t \in { ClsNoReplyNeeded, ClsFollowUp } }

\* What the code can observe of the decision crew's result: whether it has a
\* tasks_output attribute, and that list.
CrewOutput(has, outs, str) ==
    [has_tasks_output |-> has, tasks_output |-> outs, str |-> str]

DecisionResults ==
    { CrewOutput(FALSE, <<>>, Some(ReprText)),
      CrewOutput(TRUE, <<>>, Some(ReprText)),
      CrewOutput(TRUE, <<Plain(SummaryText)>>, Some(ReprText)),
      CrewOutput(TRUE, <<Plain(ClsNoReplyNeeded)>>, Some(ReprText)) }
    \cup { CrewOutput(TRUE, <<Plain(SummaryText), c>>, Some(c.str))
           : c \in ClassificationOutputs }

DraftTexts ==
    { DraftPlain, DraftPadded, DraftBlank, DraftMarked, DraftMarkedTwice,
      DraftOnlyMarker, <<>> }

\* The draft crew's result; str is None when str(draft_result) raises.
DraftResults ==
    { CrewOutput(TRUE, <<Plain(t)>>, Some(t)) : t \in DraftTexts }
    \cup { CrewOutput(TRUE, <<TaskOutput(Some(t), None, None, ReprText)>>,
                      Some(ReprText)) : t \in DraftTexts }
    \cup { CrewOutput(TRUE, <<TaskOutput(None, Some(<<>>), Some(DraftPlain),
                                         ReprText)>>, Some(ReprText)),
           CrewOutput(TRUE, <<>>, Some(DraftBlank)),
           CrewOutput(FALSE, <<>>, Some(<<>>)),
           CrewOutput(FALSE, <<>>, None) }

\* What the drafting call printed while standard output was redirected.
StreamedOutputs == { <<>>, StreamText }

\* ------------------------------------------------------- run_email_automation

\* The tasks of the decision crew in the other order.
DecisionCrewTasksSwapped == <<"classify", "summarize">>

\* tasks=[read_task, decide_task]
DecisionCrewTasks == <<"summarize", "classify">>

\* tasks=[draft_task]
DraftCrewTasks == <<"draft">>

\* A try block that ends before the drafting step.
TryBlockDecisionOnly == {"decision_kickoff"}

\* The steps of the run inside its try block.
TryBlock == {"decision_kickoff", "draft_kickoff", "create_draft"}

\* Where an exception raised in a step leaves the run.
AfterException(step) == IF step \in TryBlock THEN "done" ELSE "raised"

\* email_data.get("body", "").strip()
EmailText(msg) == Strip(msg.body)

\* The check of the body left out.
HasTextUnchecked(email_text) == TRUE

\* The run goes on only with a body that is not empty: if not email_text.
HasText(email_text) == email_text # <<>>

\* output_text or raw_output or final_output or str(task_output)
OutputValue(t) ==
    IF Truthy(t.output_text) THEN t.output_text[1]
    ELSE IF Truthy(t.raw_output) THEN t.raw_output[1]
    ELSE IF Truthy(t.final_output) THEN t.final_output[1]
    ELSE t.str

\* reader_summary after the loop over result.tasks_output
ReaderSummary(r) ==
    IF r.has_tasks_output /\ Len(r.tasks_output) >= 1
    THEN Some(OutputValue(r.tasks_output[1]))
    ELSE None

\* The decision without .lower().
DecisionKeepsCase(r) ==
    IF r.has_tasks_output /\ Len(r.tasks_output) >= 2
    THEN Some(OutputValue(r.tasks_output[2]))
    ELSE None

\* decision after the loop over result.tasks_output
Decision(r) ==
    IF r.has_tasks_output /\ Len(r.tasks_output) >= 2
    THEN Some(Lower(OutputValue(r.tasks_output[2])))
    ELSE None

\* A decision that is unset counted as "no reply".
IsNoReplyOrUnset(decision) ==
    ~Truthy(decision) \/ Contains(decision[1], NoReplyText)

\* decision and "no reply" in decision
IsNoReply(decision) ==
    Truthy(decision) /\ Contains(decision[1], NoReplyText)

\* not draft_reply or not draft_reply.strip()
Blank(o) == ~Truthy(o) \/ Strip(o[1]) = <<>>

\* Try structured CrewAI outputs.
StructuredDraft(dr) ==
    IF dr.has_tasks_output /\ dr.tasks_output # <<>>
    THEN LET first_output == dr.tasks_output[1]
         IN  Or3(first_output.output_text, first_output.raw_output,
                 first_output.final_output)
    ELSE None

\* If still empty, use the result's string representation.
StrFallback(dr, reply) ==
    IF Blank(reply) /\ dr.str # None THEN Some(Strip(dr.str[1])) ELSE reply

\* Fallback to streamed stdout.
StreamFallback(reply, streamed_output) ==
    IF Blank(reply) /\ streamed_output # <<>>
    THEN Some(streamed_output)
    ELSE reply

\* draft_reply before the final cleanup; None makes the cleanup raise.
SelectDraft(dr, streamed_output) ==
    StreamFallback(StrFallback(dr, StructuredDraft(dr)), streamed_output)

\* The cleanup left out.
CleanupKeepsMarker(reply) == reply

\* Final cleanup: remove any debug junk if present.
Cleanup(reply) ==
    IF Contains(reply, MarkerText)
    THEN Strip(SplitHead(reply, MarkerText))
    ELSE reply

\* draft_reply and isinstance(draft_reply, str) and draft_reply.strip()
ValidDraft(reply) == reply # <<>> /\ Strip(reply) # <<>>

\* The subject without its prefix.
ReplySubjectBare(subject) == subject

\* f"Re: {email_data.get('subject', '')}"
ReplySubject(subject) == RePrefix \o subject

\* The arguments of gmail.create_draft.
DraftArgs(email, reply) ==
    [to |-> email.sender, subject |-> ReplySubject(email.subject),
     body |-> reply]

\* ------------------------------------------------------------------- state

VARIABLES
    mailbox,          \* the account's messages, newest first
    drafts,           \* the account's drafts
    pc,               \* where the run is
    sys_stdout,       \* sys.stdout: "original" or "buffer"
    console,          \* the lines printed on the original stream
    captured,         \* the lines the run printed into the buffer
    email_data,       \* None or the message get_latest_email returned
    task_idx,         \* the next task of the crew that is running
    result,           \* None or what decision_crew.kickoff() returned
    decision,         \* None or the lowered classification
    draft_result,     \* None or what draft_crew.kickoff() returned
    streamed_output,  \* buffer.getvalue().strip()
    draft_reply,      \* None or draft_reply after the final cleanup
    trace             \* the calls made so far, each with its outcome

vars ==
    <<mailbox, drafts, pc, sys_stdout, console, captured, email_data,
      task_idx, result, decision, draft_result, streamed_output, draft_reply,
      trace>>

Call(op, outcome) == [op |-> op, outcome |-> outcome, args |-> None]
CallWith(op, outcome, args) == [op |-> op, outcome |-> outcome, args |-> Some(args)]

\* print(...) of each of lines, on whatever sys.stdout is.
print_lines(lines) ==
    IF sys_stdout = "original"
    THEN console' = console \o lines /\ UNCHANGED captured
    ELSE captured' = captured \o lines /\ UNCHANGED console

\* An exception raised at step: caught and logged by the except clause of
\* the try block, or propagated to the caller.
Raise(step) ==
    /\ pc' = AfterException(step)
    /\ IF step \in TryBlock THEN print_lines(<<"error">>)
                            ELSE UNCHANGED <<console, captured>>

Init ==
    /\ mailbox \in Mailboxes
    /\ drafts = <<>>
    /\ pc = "start"
    /\ sys_stdout = "original"
    /\ console = <<>>
    /\ captured = <<>>
    /\ email_data = None
    /\ task_idx = 1
    /\ result = None
    /\ decision = None
    /\ draft_result = None
    /\ streamed_output = <<>>
    /\ draft_reply = None
    /\ trace = <<>>

\* run_email_automation up to gmail.list_messages(1) and what follows it when
\* it returns no message or raises.
ListMessages ==
    /\ pc = "start"
    /\ UNCHANGED <<mailbox, drafts, sys_stdout, email_data, task_idx, result,
                   decision, draft_result, streamed_output, draft_reply>>
    /\ \/ /\ trace' = Append(trace, Call("list_messages", "raised"))
          /\ console' = console \o <<"starting">>
          /\ captured' = captured
          /\ pc' = AfterException("start")
       \/ /\ trace' = Append(trace, Call("list_messages", "returned"))
          /\ captured' = captured
          /\ IF mailbox = <<>>
             THEN /\ console' = console \o <<"starting", "found", "no_messages",
                                             "no_email_data">>
                  /\ pc' = "done"
             ELSE /\ console' = console \o <<"starting", "found">>
                  /\ pc' = "read"

\* gmail.read_message(messages[0]["id"]) and the checks of the message.
ReadMessage ==
    /\ pc = "read"
    /\ UNCHANGED <<mailbox, drafts, sys_stdout, result, decision,
                   draft_result, streamed_output, draft_reply>>
    /\ \/ \* the fetch raises something other than HttpError
          /\ trace' = Append(trace, Call("read_message", "raised"))
          /\ pc' = AfterException("read")
          /\ UNCHANGED <<console, captured, email_data, task_idx>>
       \/ \* the fetch raises HttpError: read_message returns None
          /\ trace' = Append(trace, Call("read_message", "none"))
          /\ console' = console \o <<"http_error", "unexpected_format",
                                     "no_email_data">>
          /\ pc' = "done"
          /\ UNCHANGED <<captured, email_data, task_idx>>
       \/ LET msg == read_message(mailbox[1])
          IN  /\ trace' = Append(trace, Call("read_message", "returned"))
              /\ email_data' = Some(msg)
              /\ task_idx' = 1
              /\ captured' = captured
              /\ IF HasText(EmailText(msg))
                 THEN /\ console' = console \o <<"processing">>
                      /\ pc' = "decision_kickoff"
                 ELSE /\ console' = console \o <<"empty_body">>
                      /\ pc' = "done"

\* decision_crew.kickoff(): the next task of the crew; after the last one,
\* the result is read and the run branches on the decision.
DecisionKickoff ==
    /\ pc = "decision_kickoff"
    /\ UNCHANGED <<mailbox, drafts, email_data, draft_result, streamed_output,
                   draft_reply>>
    /\ LET task == DecisionCrewTasks[task_idx]
       IN  \/ /\ trace' = Append(trace, Call(task, "raised"))
              /\ Raise("decision_kickoff")
              /\ UNCHANGED <<sys_stdout, task_idx, result, decision>>
           \/ /\ task_idx < Len(DecisionCrewTasks)
              /\ trace' = Append(trace, Call(task, "returned"))
              /\ task_idx' = task_idx + 1
              /\ UNCHANGED <<pc, sys_stdout, console, captured, result,
                             decision>>
           \/ /\ task_idx = Len(DecisionCrewTasks)
              /\ trace' = Append(trace, Call(task, "returned"))
              /\ \E r \in DecisionResults :
                    /\ result' = Some(r)
                    /\ decision' = Decision(r)
                    /\ captured' = captured
                    /\ IF IsNoReply(Decision(r))
                       THEN /\ console' = console \o <<"summary", "decision",
                                                       "no_reply">>
                            /\ pc' = "done"
                            /\ UNCHANGED <<sys_stdout, task_idx>>
                       ELSE /\ console' = console \o <<"summary", "decision",
                                                       "generating">>
                            /\ sys_stdout' = "buffer"
                            /\ task_idx' = 1
                            /\ pc' = "draft_kickoff"

\* draft_crew.kickoff() under the redirected standard output, and the
\* extraction and cleanup of the draft.
DraftKickoff ==
    /\ pc = "draft_kickoff"
    /\ UNCHANGED <<mailbox, drafts, email_data, task_idx, result, decision>>
    /\ LET task == DraftCrewTasks[task_idx]
       IN  \/ /\ trace' = Append(trace, Call(task, "raised"))
              /\ Raise("draft_kickoff")
              /\ UNCHANGED <<sys_stdout, draft_result, streamed_output,
                             draft_reply>>
           \/ \E dr \in DraftResults, printed \in StreamedOutputs :
                 LET selected == SelectDraft(dr, Strip(printed))
                 IN  /\ trace' = Append(trace, Call(task, "returned"))
                     /\ sys_stdout' = "original"
                     /\ draft_result' = Some(dr)
                     /\ streamed_output' = Strip(printed)
                     /\ captured' = captured
                     /\ IF selected = None
                        THEN \* "..." in None raises TypeError
                             /\ draft_reply' = None
                             /\ console' = console \o <<"error">>
                             /\ pc' = AfterException("draft_kickoff")
                        ELSE /\ draft_reply' = Some(Cleanup(selected[1]))
                             /\ IF ValidDraft(Cleanup(selected[1]))
                                THEN /\ console' = console \o <<"draft_reply">>
                                     /\ pc' = "create_draft"
                                ELSE /\ console' = console \o
                                            <<"draft_reply", "no_valid_draft">>
                                     /\ pc' = "done"

\* gmail.create_draft(to=sender, subject=subject, body=draft_reply)
CreateDraft ==
    /\ pc = "create_draft"
    /\ UNCHANGED <<mailbox, sys_stdout, email_data, task_idx, result,
                   decision, draft_result, streamed_output, draft_reply>>
    /\ LET args == DraftArgs(email_data[1], draft_reply[1])
       IN  \/ /\ trace' = Append(trace, CallWith("create_draft", "raised", args))
              /\ Raise("create_draft")
              /\ UNCHANGED drafts
           \/ /\ trace' = Append(trace, CallWith("create_draft", "returned", args))
              /\ drafts' = Append(drafts,
                                  DraftResource(args.to, args.subject, args.body))
              /\ console' = console \o <<"draft_created", "draft_success">>
              /\ captured' = captured
              /\ pc' = "done"

Next ==
    \/ ListMessages
    \/ ReadMessage
    \/ DecisionKickoff
    \/ DraftKickoff
    \/ CreateDraft

Spec == Init /\ [][Next]_vars


\* ------------------------------------------------------------- properties

\* The operations of the trace, in order.
Ops == [i \in 1..Len(trace) |-> trace[i].op]

Called(op) == \E i \in 1..Len(trace) : trace[i].op = op

Happened(op, outcome) ==
    \E i \in 1..Len(trace) : trace[i].op = op /\ trace[i].outcome = outcome

LlmOps == {"summarize", "classify", "draft"}

\* The language-model calls of the trace, in order.
LlmCalls == SelectSeq(Ops, LAMBDA op : op \in LlmOps)

\* The create_draft calls of the trace, in order.
DraftCalls == SelectSeq(trace, LAMBDA c : c.op = "create_draft")

\* The run has ended, by returning or by an exception that left it.
Ended == pc \in {"done", "raised"}

\* t occurs in s when letter case is ignored.
ContainsAnyCase(s, t) ==
    \E i \in 1..Len(s) :
        /\ i + Len(t) - 1 <= Len(s)
        /\ \A j \in 1..Len(t) : LowerChar(s[i + j - 1]) = LowerChar(t[j])

\* The decision crew's result exposes the output of its second task.
ClassificationExposed ==
    /\ result # None
    /\ result[1].has_tasks_output
    /\ Len(result[1].tasks_output) >= 2

\* The classification output: the text the run reads off the second task.
ClassificationOutput == OutputValue(result[1].tasks_output[2])

\* C1: whenever the classification output contains "No Reply Needed" in any
\* letter casing, the run ends without starting the drafting step and
\* without calling create_draft.
C1_NoReplyNeededSkipsDrafting ==
    (ClassificationExposed
        /\ ContainsAnyCase(ClassificationOutput, ClsNoReplyNeeded))
    => /\ pc = "done"
       /\ sys_stdout = "original"
       /\ ~Called("draft")
       /\ ~Called("create_draft")
       /\ drafts = <<>>

\* C1 witness: a run ended on a classification that spells the sentinel in
\* another casing than the code's "no reply".
C1_Witness ==
    /\ ClassificationExposed
    /\ ClassificationOutput = ClsSentence
    /\ pc = "done"
    /\ Happened("classify", "returned")

\* C2: a run that reaches the final step with a draft string that is not
\* blank calls create_draft exactly once, with to the sender of the fetched
\* message, subject "Re: " followed by its subject, and body the draft.
C2_DraftCreatedOnceWithReplyHeaders ==
    (Ended /\ draft_reply # None /\ Strip(draft_reply[1]) # <<>>)
    => /\ Len(DraftCalls) = 1
       /\ DraftCalls[1].args[1].to =
              HeaderValue(mailbox[1].headers, "From", UnknownSender)
       /\ DraftCalls[1].args[1].subject =
              <<82, 101, 58, 32>>
                  \o HeaderValue(mailbox[1].headers, "Subject", NoSubject)
       /\ DraftCalls[1].args[1].body = draft_reply[1]

\* C2 witness: a draft was created for a message that has a Subject header.
C2_Witness ==
    /\ pc = "done"
    /\ Happened("create_draft", "returned")
    /\ Len(drafts) = 1
    /\ mailbox[1].headers # <<>>

\* The fetch step yielded no usable message.
NoUsableMessage ==
    \/ Happened("list_messages", "returned") /\ mailbox = <<>>
    \/ Happened("read_message", "none")
    \/ email_data # None /\ Strip(email_data[1].body) = <<>>

\* C3: when the fetch step yields no usable message the run ends as a no-op:
\* no language-model call is made and create_draft is never called.
C3_NoUsableMessageIsNoOp ==
    NoUsableMessage
    => /\ pc = "done"
       /\ LlmCalls = <<>>
       /\ ~Called("create_draft")
       /\ drafts = <<>>

\* C3 witness: the newest message was read and its body is empty.
C3_Witness ==
    /\ email_data # None
    /\ Strip(email_data[1].body) = <<>>
    /\ pc = "done"

\* Every part of a payload, the payload itself first, depth first.
RECURSIVE AllParts(_)
RECURSIVE AllPartsOf(_)
AllParts(part) ==
    <<part>> \o (IF part.parts = None THEN <<>> ELSE AllPartsOf(part.parts[1]))
AllPartsOf(parts) ==
    IF parts = <<>> THEN <<>>
    ELSE AllParts(Head(parts)) \o AllPartsOf(Tail(parts))

\* The payload's only text is HTML: no part anywhere is text/plain, and a
\* text/html part carries data.
HtmlOnly(payload) ==
    LET ps == AllParts(payload)
    IN  /\ \A i \in 1..Len(ps) : ps[i].mimeType # "text/plain"
        /\ \E i \in 1..Len(ps) :
              Truthy(ps[i].data) /\ ps[i].mimeType = "text/html"

\* The HTML of a payload: its text/html parts, in order.
RECURSIVE HtmlOfParts(_)
HtmlOfParts(ps) ==
    IF ps = <<>> THEN <<>>
    ELSE (IF Truthy(Head(ps).data) /\ Head(ps).mimeType = "text/html"
          THEN Decoded(Head(ps).data[1]) ELSE <<>>)
         \o HtmlOfParts(Tail(ps))

HtmlOf(payload) == HtmlOfParts(AllParts(payload))

\* C4: for a payload whose only content is HTML, multipart or single-part,
\* read_message returns as body the tag-stripped text of the HTML, never
\* the markup.
C4_HtmlOnlyBodyIsTagStripped ==
    (email_data # None /\ HtmlOnly(mailbox[1]))
    => /\ email_data[1].body = Strip(get_text(HtmlOf(mailbox[1])))
       /\ \A i \in 1..Len(email_data[1].body) : email_data[1].body[i] # LT

\* The draft string before the final cleanup.
SelectedDraft == SelectDraft(draft_result[1], streamed_output)

\* The drafting call returned a draft string that contains the marker.
DraftMarkedUp ==
    /\ draft_result # None
    /\ SelectedDraft # None
    /\ \E i \in 1..Len(SelectedDraft[1]) : MatchAt(SelectedDraft[1], MarkerText, i)

\* The text of s before the first occurrence of t.
TextBefore(s, t) ==
    LET first == CHOOSE i \in 1..Len(s) :
                     /\ MatchAt(s, t, i)
                     /\ \A k \in 1..(i - 1) : ~MatchAt(s, t, k)
    IN  [k \in 1..(first - 1) |-> s[k]]

IsBlank(s) == \A i \in 1..Len(s) : s[i] \in Whitespace

\* C5 as stated: the body passed to create_draft never contains the marker
\* and equals the text preceding its first occurrence; if nothing non-blank
\* precedes the marker, no draft is created.
C5_BodyIsTextBeforeMarker ==
    DraftMarkedUp
    => LET before == TextBefore(SelectedDraft[1], MarkerText)
       IN  /\ \A i \in 1..Len(DraftCalls) :
                 /\ ~Contains(DraftCalls[i].args[1].body, MarkerText)
                 /\ DraftCalls[i].args[1].body = before
           /\ IsBlank(before) => (DraftCalls = <<>> /\ pc = "done")

\* C5 amended: the body passed to create_draft never contains the marker and
\* equals the text preceding its first occurrence with leading and trailing
\* whitespace stripped; if nothing non-blank precedes the marker, no draft
\* is created.
C5_BodyIsStrippedTextBeforeMarker ==
    DraftMarkedUp
    => LET before == TextBefore(SelectedDraft[1], MarkerText)
       IN  /\ \A i \in 1..Len(DraftCalls) :
                 /\ ~Contains(DraftCalls[i].args[1].body, MarkerText)
                 /\ DraftCalls[i].args[1].body = Strip(before)
           /\ IsBlank(before) => (DraftCalls = <<>> /\ pc = "done")

\* C5 witness: a draft was created from a draft string with the marker in it.
C5_Witness ==
    /\ DraftMarkedUp
    /\ Happened("create_draft", "returned")
    /\ Len(drafts) = 1

\* s is a prefix of t.
IsPrefix(s, t) == Len(s) <= Len(t) /\ \A i \in 1..Len(s) : s[i] = t[i]

\* C6: the language-model calls of a run are made in the order summarize,
\* classify, draft, each at most once (three at most); the drafting call
\* starts only after summarization and classification have returned, and
\* create_draft is called only after the drafting call has returned.
C6_CallsInOrder ==
    /\ IsPrefix(LlmCalls, <<"summarize", "classify", "draft">>)
    /\ \A i \in 1..Len(trace) :
          /\ trace[i].op = "draft" =>
                /\ \E j \in 1..(i - 1) :
                      trace[j].op = "summarize" /\ trace[j].outcome = "returned"
                /\ \E j \in 1..(i - 1) :
                      trace[j].op = "classify" /\ trace[j].outcome = "returned"
          /\ trace[i].op = "create_draft" =>
                \E j \in 1..(i - 1) :
                    trace[j].op = "draft" /\ trace[j].outcome = "returned"

\* C6 witness: a run that made all three calls and then created the draft.
C6_Witness ==
    /\ LlmCalls = <<"summarize", "classify", "draft">>
    /\ Happened("create_draft", "returned")

\* A language-model call raised.
LlmRaised == \E i \in 1..Len(trace) :
    trace[i].op \in LlmOps /\ trace[i].outcome = "raised"

\* C7: when a language-model call raises, the exception is caught at the top
\* level of the run: the run returns with the error logged, no step is made
\* after the call that raised, and create_draft is not called.
C7_LlmFailureEndsRun ==
    LlmRaised
    => /\ pc = "done"
       /\ trace[Len(trace)].op \in LlmOps
       /\ trace[Len(trace)].outcome = "raised"
       /\ \A i \in 1..(Len(trace) - 1) : trace[i].outcome # "raised"
       /\ ~Called("create_draft")
       /\ drafts = <<>>
       /\ \E i \in 1..Len(console \o captured) : (console \o captured)[i] = "error"

\* C7 witness: the drafting call raised and the run has returned.
C7_Witness ==
    /\ Happened("draft", "raised")
    /\ pc = "done"

\* C8: the redirection of standard output is always undone: when the run
\* has ended sys.stdout is the original stream, and nothing the run printed
\* went into the buffer.
C8_StdoutRestored ==
    Ended => (sys_stdout = "original" /\ captured = <<>>)

\* C9: every failure of a step (listing, reading, the language-model calls,
\* draft creation) is caught and logged: the run returns and no exception
\* leaves run_email_automation.
C9_NoExceptionEscapes ==
    (\E i \in 1..Len(trace) : trace[i].outcome \in {"raised", "none"})
    => /\ pc = "done"
       /\ \E i \in 1..Len(console \o captured) :
             (console \o captured)[i] \in {"error", "http_error"}

\* The run skipped drafting on its decision.
SkippedOnDecision ==
    \E i \in 1..Len(console) : console[i] = "no_reply"

\* C10: drafting is skipped only when a classification was extracted and
\* contains "no reply"; a result that exposes no task outputs, or fewer than
\* two, leaves the decision unset and the run goes on to the drafting step.
C10_UnsetDecisionGoesOnToDrafting ==
    /\ SkippedOnDecision
       => /\ ClassificationExposed
          /\ ContainsAnyCase(ClassificationOutput, NoReplyText)
    /\ (result # None /\ ~ClassificationExposed)
       => /\ decision = None
          /\ ~SkippedOnDecision
          /\ pc = "draft_kickoff" \/ Called("draft")

\* C10 witness: a draft was created although the only task output exposed
\* reads "No Reply Needed".
C10_Witness ==
    /\ result # None
    /\ result[1].has_tasks_output
    /\ Len(result[1].tasks_output) = 1
    /\ OutputValue(result[1].tasks_output[1]) = ClsNoReplyNeeded
    /\ Happened("create_draft", "returned")

====
